---- MODULE Spec2Model ----
(***************************************************************************)
(* Hyperion node (src/main.py): the DMX / ArtNet engine run_dmx_client.    *)
(* The websocket receive loop, the universe registry and the broadcast     *)
(* target fix-up are modelled as one sequential process; the server and   *)
(* the network are the environment.                                        *)
(*                                                                         *)
(* An IPv4 string is a sequence of its dot-separated numbers; a binary     *)
(* websocket message is a sequence of bytes.                               *)
(***************************************************************************)
EXTENDS Integers, Sequences, FiniteSets, TLC

----------------------------------------------------------------------------
(* Bounds of the model *)

\* messages the server sends during one run
MaxMsgs == 2
\* messages in flight on one connection
MaxInbox == 2
\* the count of failed connections saturates here
MaxFailures == 2

----------------------------------------------------------------------------
(* Program constants *)

\* add_channel(start=1, width=512), and the padding target
DmxWidth == 512
\* asyncio.sleep(5)
BackoffDelay == 5

GlobalBroadcast == <<255, 255, 255, 255>>
Loopback == <<127, 0, 0, 1>>

\* the value of a variable holding no address / no message yet
None == <<>>

----------------------------------------------------------------------------
(* Inputs *)

\* addresses getsockname() can report for the outbound socket
HostAddrs == { <<192, 168, 1, 20>> }

\* arguments get_subnet_broadcast is probed with: dotted quads over a few
\* octet values, the documented examples, and strings that are no IPv4 address
ProbeOctets == { 0, 10, 192, 255 }
ProbeIPs ==
    { <<a, b, c, d>> : a, b, c, d \in ProbeOctets }
        \cup { <<192, 168, 178, 50>>, <<10, 0, 0, 1>>, <<127, 0, 0, 1>> }
        \cup { <<>>, <<10, 0, 0>>, <<10, 0, 0, 1, 1>>, <<256, 0, 0, 1>>,
               <<10, 0, 0, 256>>, <<10, 300, 0, 1>>, <<10, 0, 0, -1>> }

\* a string of the URI is the sequence of its characters
HttpScheme == << "h", "t", "t", "p", ":", "/", "/" >>
HttpsScheme == << "h", "t", "t", "p", "s", ":", "/", "/" >>
WsScheme == << "w", "s", ":", "/", "/" >>
WssScheme == << "w", "s", "s", ":", "/", "/" >>
DmxPath == << "/", "d", "m", "x", "?", "t", "o", "k", "e", "n", "=" >>

\* server_url values of node_config.json (host:port after the scheme)
HostPort == << "p", "i", ":", "8" >>
ServerUrls == { HttpScheme \o HostPort, HttpsScheme \o HostPort }
\* the device_secret the server issued
Secrets == { << "k", "9" >> }

\* artnet_ip values of node_config.json; the key may also be missing
ConfigTargets == { GlobalBroadcast, <<10, 0, 0, 99>> }
\* the value of config before the file is loaded
NoConfig ==
    [present |-> FALSE, artnet_ip |-> None, server_url |-> <<>>, device_secret |-> <<>>]

Configs ==
    { [present |-> TRUE, artnet_ip |-> t, server_url |-> url, device_secret |-> k] :
        t \in ConfigTargets, url \in ServerUrls, k \in Secrets }
        \cup { [present |-> FALSE, artnet_ip |-> None, server_url |-> url,
                device_secret |-> k] : url \in ServerUrls, k \in Secrets }

\* the two header bytes of the frames the server sends
Headers == { <<0, 1>>, <<1, 0>> }
\* numbers of DMX data bytes after the header
DataLens == { 1, 512, 513 }
\* first data byte of a frame; byte i of the data is FillByte + i - 1 mod 256
FillBytes == { 255 }

Data(n, b) == [i \in 1..n |-> (b + i - 1) % 256]

Bytes(d) == [kind |-> "bytes", data |-> d]
Text == [kind |-> "str", data |-> <<>>]

FrameMsgs == { Bytes(h \o Data(n, b)) : h \in Headers, n \in DataLens, b \in FillBytes }
ShortMsgs == { Bytes(SubSeq(<<0, 1>>, 1, k)) : k \in 0..2 }
Messages == FrameMsgs \cup ShortMsgs \cup { Text }

----------------------------------------------------------------------------
(* Pure functions *)

\* ipaddress.IPv4Network accepts four decimal octets
IsIPv4(ip) == Len(ip) = 4 /\ \A i \in 1..4 : ip[i] \in 0..255

\* the 32-bit address, packed as its high and low 16-bit halves
ToInt(ip) == [hi |-> ip[1] * 256 + ip[2], lo |-> ip[3] * 256 + ip[4]]
ToOctets(n) == << n.hi \div 256, n.hi % 256, n.lo \div 256, n.lo % 256 >>

\* the /24 prefix: netmask 255.255.255.0, hostmask 0.0.0.255
HostMask == 255

\* a mutant: strict=False is missing, so an address with host bits set is
\* rejected and the except clause answers
get_subnet_broadcast_strict(ip) ==
    IF IsIPv4(ip) /\ ip[4] = 0
    THEN << ip[1], ip[2], ip[3], HostMask >>
    ELSE GlobalBroadcast

\* a mutant: the prefix length is missing, so the network is the host itself
get_subnet_broadcast_host(ip) ==
    IF IsIPv4(ip) THEN ip ELSE GlobalBroadcast

\* IPv4Network(f"{ip}/24", strict=False).broadcast_address:
\* network = address & netmask, broadcast = network | hostmask
get_subnet_broadcast(ip) ==
    IF IsIPv4(ip)
    THEN LET addr == ToInt(ip)
             network == [addr EXCEPT !.lo = @ - (@ % (HostMask + 1))]
         IN  ToOctets([network EXCEPT !.lo = @ + HostMask])
    ELSE GlobalBroadcast

\* what get_local_ip() can return: the socket's address, or loopback on failure
get_local_ip == HostAddrs \cup { Loopback }

\* config.get("artnet_ip", "255.255.255.255")
ConfigGet(cfg) == IF cfg.present THEN cfg.artnet_ip ELSE GlobalBroadcast

\* a mutant: the substitution is never made
FixUpNever(target, ip) == target

\* if target_ip == "255.255.255.255": target_ip = get_subnet_broadcast(my_ip)
FixUp(target, ip) ==
    IF target = GlobalBroadcast THEN get_subnet_broadcast(ip) ELSE target

StartsWith(str, prefix) ==
    Len(str) >= Len(prefix) /\ SubSeq(str, 1, Len(prefix)) = prefix

\* str.replace(old, new): every occurrence, left to right
RECURSIVE Replace(_, _, _)
Replace(str, old, new) ==
    IF str = <<>> THEN <<>>
    ELSE IF StartsWith(str, old)
         THEN new \o Replace(SubSeq(str, Len(old) + 1, Len(str)), old, new)
         ELSE <<Head(str)>> \o Replace(Tail(str), old, new)

\* ws_base = config['server_url'].replace("http://", "ws://")
WsBase(cfg) == Replace(cfg.server_url, HttpScheme, WsScheme)

\* uri = f"{ws_base}/dmx?token={config['device_secret']}"
Uri(cfg) == WsBase(cfg) \o DmxPath \o cfg.device_secret

\* websockets.connect accepts a URI whose scheme is ws or wss
IsWsUri(u) == StartsWith(u, WsScheme) \/ StartsWith(u, WssScheme)

\* str.rstrip("/")
RECURSIVE RStrip(_)
RStrip(str) ==
    IF str # <<>> /\ str[Len(str)] = "/" THEN RStrip(SubSeq(str, 1, Len(str) - 1)) ELSE str

\* the host field of the form: the URL as typed, with or without a final slash
FormHosts == ServerUrls \cup { url \o << "/" >> : url \in ServerUrls }

\* what session.post(register_url) and resp.json() give: an exception, a
\* status other than 200, or 200 with a body whose device_secret is missing,
\* empty or a secret
Responses ==
    { [raised |-> TRUE, status |-> 0, has_secret |-> FALSE, device_secret |-> <<>>],
      [raised |-> FALSE, status |-> 401, has_secret |-> FALSE, device_secret |-> <<>>],
      [raised |-> FALSE, status |-> 200, has_secret |-> FALSE, device_secret |-> <<>>],
      [raised |-> FALSE, status |-> 200, has_secret |-> TRUE, device_secret |-> <<>>] }
        \cup { [raised |-> FALSE, status |-> 200, has_secret |-> TRUE, device_secret |-> k] :
                 k \in Secrets }
NoResponse ==
    [raised |-> FALSE, status |-> 0, has_secret |-> FALSE, device_secret |-> <<>>]

\* a mutant: the check of device_secret is missing
WritesConfigOn200(resp) == ~resp.raised /\ resp.status = 200

\* if resp.status == 200: ... if not device_secret: return ... else open(CONFIG_FILE, "w")
WritesConfig(resp) ==
    /\ ~resp.raised
    /\ resp.status = 200
    /\ resp.has_secret
    /\ resp.device_secret # <<>>

\* new_config of handle_register
NewConfig(server_base, artnet_ip, device_secret) ==
    [present |-> TRUE, artnet_ip |-> artnet_ip, server_url |-> server_base,
     device_secret |-> device_secret]

NoFile == [exists |-> FALSE, content |-> NoConfig]
ConfigFiles == { NoFile } \cup { [exists |-> TRUE, content |-> c] : c \in Configs }

\* a mutant: the file is taken to be there
ExistsAlways(file) == TRUE

\* os.path.exists(CONFIG_FILE)
Exists(file) == file.exists

\* a mutant: the header alone counts as a frame
IsFrameGE(m) == m.kind = "bytes" /\ Len(m.data) >= 2

\* isinstance(message, bytes) and len(message) > 2
IsFrame(m) == m.kind = "bytes" /\ Len(m.data) > 2

\* a mutant: byteorder='little'
FromBytesLittle(b) == b[2] * 256 + b[1]

\* int.from_bytes(message[0:2], byteorder='big')
FromBytesBig(b) == b[1] * 256 + b[2]

UniverseOf(m) == FromBytesBig(SubSeq(m.data, 1, 2))

\* dmx_values = list(message[2:]), extended with zeros while shorter than 512
DmxValues(m) ==
    LET dmx_raw == SubSeq(m.data, 3, Len(m.data))
    IN  IF Len(dmx_raw) < DmxWidth
        THEN dmx_raw \o [i \in 1..(DmxWidth - Len(dmx_raw)) |-> 0]
        ELSE dmx_raw

UniverseIds == { FromBytesBig(h) : h \in Headers }

----------------------------------------------------------------------------
(* State *)

VARIABLES
    config_file,        \* node_config.json: whether it exists, and its content
    last_reg,           \* the server's answer to the latest /register, while setup runs
    config,             \* main: config, the record read from node_config.json
    my_ip,              \* run_dmx_client: my_ip
    target_ip,          \* run_dmx_client: target_ip
    node_target,        \* the address ArtNetNode.create was called with
    uri,                \* run_dmx_client: uri
    state,              \* position of run_dmx_client in its reconnect loop
    timer,              \* seconds left of asyncio.sleep(5): 5 while pending, then 0
    universe_channels,  \* run_dmx_client: universe_channels, u_id -> channel
    created,            \* per universe id, the outputs created on the node
    inbox,              \* messages in flight on the open websocket
    sent,               \* messages the server has sent so far
    pushLog,            \* per universe id, the message numbers handed to set_values
    out,                \* per universe id, the values its channel holds
    lastPush,           \* the latest set_values call
    fixups,             \* times the broadcast fix-up block has run
    failures,           \* connections ended or attempts failed so far (saturating)
    taken,              \* the message the body of async for last ran for
    raised,             \* the exception the loop is handling, and the call that raised it
    open_sockets,       \* websocket connections to the server that are open
    ip_arg,             \* get_subnet_broadcast called on its own: the argument
    ip_result           \* get_subnet_broadcast called on its own: the value returned

probeVars == <<ip_arg, ip_result>>
setupVars == <<config_file, last_reg>>
startupVars == <<config, my_ip, target_ip, node_target, fixups, uri, probeVars, setupVars>>
registryVars == <<universe_channels, created>>
outputVars == <<pushLog, out, lastPush>>
serverVars == <<sent>>
vars == <<config_file, last_reg, config, my_ip, target_ip, node_target, uri, state, timer, universe_channels,
          created, inbox, sent, pushLog, out, lastPush, fixups, failures, taken,
          raised, open_sockets, ip_arg, ip_result>>
loopVars == <<state, timer, inbox, failures, raised>>
clientVars == <<my_ip, target_ip, node_target, uri, timer, universe_channels, created,
                inbox, sent, pushLog, out, lastPush, fixups, failures, taken, raised,
                open_sockets>>

NoPush == [u |-> -1, values |-> <<>>, msg |-> Text, seq |-> 0]
NoMessage == [seq |-> 0, msg |-> Text]
NoException == [exc |-> "none", at |-> "none"]

Min(a, b) == IF a < b THEN a ELSE b

InitProgram ==
    /\ config_file \in ConfigFiles
    /\ last_reg = NoResponse
    /\ config = NoConfig
    /\ my_ip = None
    /\ target_ip = None
    /\ node_target = None
    /\ uri = None
    /\ state = "MAIN"
    /\ timer = 0
    /\ universe_channels = <<>>
    /\ created = [u \in UniverseIds |-> 0]
    /\ inbox = <<>>
    /\ sent = 0
    /\ pushLog = [u \in UniverseIds |-> <<>>]
    /\ out = [u \in UniverseIds |-> <<>>]
    /\ lastPush = NoPush
    /\ fixups = 0
    /\ failures = 0
    /\ taken = NoMessage
    /\ raised = NoException
    /\ open_sockets = 0

Init ==
    /\ InitProgram
    /\ ip_arg = None
    /\ ip_result = None

----------------------------------------------------------------------------
(* main and the setup server *)

\* main: if not os.path.exists(CONFIG_FILE): await run_setup_server()
MainCheck ==
    /\ state = "MAIN"
    /\ state' = IF Exists(config_file) THEN "LOAD" ELSE "SETUP"
    /\ UNCHANGED <<config, setupVars, clientVars, probeVars>>

\* handle_register, called while the setup server runs: the form is posted,
\* the server is asked, and the file is written on a good answer
HandleRegister ==
    /\ state = "SETUP"
    /\ \E host \in FormHosts, artnet_ip \in ConfigTargets, resp \in Responses :
        LET server_base == RStrip(host)
        IN  /\ config_file' =
                  IF WritesConfig(resp)
                  THEN [exists |-> TRUE,
                        content |-> NewConfig(server_base, artnet_ip, resp.device_secret)]
                  ELSE config_file
            /\ last_reg' = resp
    /\ UNCHANGED <<state, config, clientVars, probeVars>>

\* run_setup_server: while not os.path.exists(CONFIG_FILE) ends, runner.cleanup()
SetupExit ==
    /\ state = "SETUP"
    /\ Exists(config_file)
    /\ state' = "LOAD"
    /\ last_reg' = NoResponse
    /\ UNCHANGED <<config_file, config, clientVars, probeVars>>

\* main: if os.path.exists(CONFIG_FILE): config = json.load(f); run_dmx_client(config)
LoadConfig ==
    /\ state = "LOAD"
    /\ IF Exists(config_file)
       THEN config' = config_file.content /\ state' = "START"
       ELSE config' = config /\ state' = "EXIT"
    /\ UNCHANGED <<setupVars, clientVars, probeVars>>

----------------------------------------------------------------------------
(* Start of run_dmx_client *)

\* target_ip = config.get(...); my_ip = get_local_ip(); the fix-up block
Startup ==
    /\ state = "START"
    /\ \E ip \in get_local_ip :
        /\ my_ip' = ip
        /\ target_ip' = FixUp(ConfigGet(config), ip)
    /\ fixups' = fixups + 1
    /\ state' = "FIXED"
    /\ UNCHANGED <<config, node_target, uri, timer, inbox, failures, taken, raised>>
    /\ UNCHANGED <<probeVars, setupVars, open_sockets>>
    /\ UNCHANGED <<registryVars, outputVars, serverVars>>

\* async with ArtNetNode.create(target_ip, ...) as node: universe_channels = {},
\* then ws_base and uri
CreateNode ==
    /\ state = "FIXED"
    /\ node_target' = target_ip
    /\ universe_channels' = <<>>
    /\ uri' = Uri(config)
    /\ state' = "DISCONNECTED"
    /\ UNCHANGED <<config, my_ip, target_ip, fixups, timer, created, inbox, failures>>
    /\ UNCHANGED <<outputVars, serverVars, taken, raised, probeVars, setupVars>>
    /\ UNCHANGED open_sockets

----------------------------------------------------------------------------
(* The reconnect loop *)

\* a mutant: the loop is left after the sleep
LoopExit == "TERMINATED"

\* while True: the next iteration awaits websockets.connect(uri)
LoopBack == "CONNECTING"

\* a mutant: only the first except clause exists
CaughtClosedOnly(exc) == exc = "ConnectionClosed"

\* except websockets.exceptions.ConnectionClosed / except Exception
Caught(exc) == exc \in { "ConnectionClosed", "Exception" }

\* a mutant: the connection is not closed when the block is left
AsyncWithLeak(n) == n

\* async with websockets.connect(uri) as websocket: leaving the block closes
\* the connection it opened
AsyncWithExit(n) == n - 1

\* an exception leaves the async with (the socket is closed, unless connect
\* itself raised and none was open) and reaches the except clauses: both log
\* and sleep 5 seconds
Raise(exc, at) ==
    /\ IF Caught(exc)
       THEN state' = "BACKOFF" /\ timer' = BackoffDelay
       ELSE state' = "TERMINATED" /\ timer' = 0
    /\ raised' = [exc |-> exc, at |-> at]
    /\ open_sockets' = IF at = "connect" THEN open_sockets ELSE AsyncWithExit(open_sockets)
    /\ inbox' = <<>>
    /\ failures' = Min(failures + 1, MaxFailures)

\* first pass through while True
BeginConnect ==
    /\ state = "DISCONNECTED"
    /\ state' = LoopBack
    /\ UNCHANGED <<timer, inbox, failures, raised, open_sockets>>
    /\ UNCHANGED <<startupVars, registryVars, outputVars, serverVars, taken>>

\* websockets.connect(uri) completes the handshake
HandshakeOk ==
    /\ state = "CONNECTING"
    /\ IsWsUri(uri)
    /\ state' = "CONNECTED"
    /\ open_sockets' = open_sockets + 1
    /\ inbox' = <<>>
    /\ UNCHANGED <<timer, failures, raised>>
    /\ UNCHANGED <<startupVars, registryVars, outputVars, serverVars, taken>>

\* websockets.connect(uri) raises (refused, bad status, bad URI, ...)
HandshakeFail ==
    /\ state = "CONNECTING"
    /\ Raise("Exception", "connect")
    /\ UNCHANGED <<startupVars, registryVars, outputVars, serverVars, taken>>

\* the server sends a message on the open connection
ServerSend ==
    /\ state = "CONNECTED"
    /\ sent < MaxMsgs
    /\ Len(inbox) < MaxInbox
    /\ \E m \in Messages :
        inbox' = Append(inbox, [seq |-> sent + 1, msg |-> m])
    /\ sent' = sent + 1
    /\ UNCHANGED <<state, timer, failures, raised, open_sockets>>
    /\ UNCHANGED <<startupVars, registryVars, outputVars, taken>>

\* the peer closes with code 1000/1001: async for ends without an exception,
\* the async with is left and while True starts the next iteration
PeerCloseOK ==
    /\ state = "CONNECTED"
    /\ inbox = <<>>
    /\ state' = LoopBack
    /\ open_sockets' = AsyncWithExit(open_sockets)
    /\ failures' = Min(failures + 1, MaxFailures)
    /\ UNCHANGED <<timer, inbox, raised>>
    /\ UNCHANGED <<startupVars, registryVars, outputVars, serverVars, taken>>

\* the connection breaks while async for awaits: ConnectionClosed (abnormal
\* close code) or another exception (socket or protocol error) is raised
ConnectionLost ==
    /\ state = "CONNECTED"
    /\ \E exc \in { "ConnectionClosed", "Exception" } : Raise(exc, "recv")
    /\ UNCHANGED <<startupVars, registryVars, outputVars, serverVars, taken>>

\* the 5 seconds of asyncio.sleep(5) pass
Tick ==
    /\ state = "BACKOFF"
    /\ timer > 0
    /\ timer' = timer - BackoffDelay
    /\ UNCHANGED <<state, inbox, failures, raised, open_sockets>>
    /\ UNCHANGED <<startupVars, registryVars, outputVars, serverVars, taken>>

\* asyncio.sleep(5) returns
WakeUp ==
    /\ state = "BACKOFF"
    /\ timer = 0
    /\ state' = LoopBack
    /\ raised' = NoException
    /\ UNCHANGED <<timer, inbox, failures, open_sockets>>
    /\ UNCHANGED <<startupVars, registryVars, outputVars, serverVars, taken>>

----------------------------------------------------------------------------
(* Handling of one message: the body of async for, which awaits nothing *)

\* a mutant: the newest buffered message is taken first
NextIndexLast(q) == Len(q)

\* async for message in websocket: the oldest message in flight
NextIndex(q) == 1

Remove(q, i) == SubSeq(q, 1, i - 1) \o SubSeq(q, i + 1, Len(q))

\* a mutant: the registry is not consulted
NeedsCreateAlways(reg, u_id) == TRUE

\* if u_id not in universe_channels
NeedsCreate(reg, u_id) == u_id \notin DOMAIN reg

\* the channel add_universe(u_id).add_channel(start=1, width=512) returns
NewChannel(u_id) == [universe |-> u_id, serial |-> created[u_id] + 1]

\* universe_channels[u_id] = channel
Store(reg, u_id, channel) ==
    [x \in DOMAIN reg \cup { u_id } |-> IF x = u_id THEN channel ELSE reg[x]]

\* node.add_universe(u_id) returns the universe or raises (the library
\* rejects an address it cannot send to)
AddUniverseOutcomes == { "ok", "raise" }

\* channel.set_values(values) on a channel of width 512: the library's answer
\* to a list of another length is not fixed by this program
SetValuesOutcomes(values) ==
    IF Len(values) = DmxWidth THEN { "ok" } ELSE { "ok", "raise" }

\* a mutant: every universe shares one channel buffer
SetChannelAll(o, u_id, values) == [v \in DOMAIN o |-> values]

\* set_values stores the values in the channel of universe u_id
SetChannel(o, u_id, values) == [o EXCEPT ![u_id] = values]

\* universe_channels[u_id].set_values(dmx_values)
SetValues(e, u_id, values) ==
    /\ lastPush' = [u |-> u_id, values |-> values, msg |-> e.msg, seq |-> e.seq]
    /\ pushLog' = [pushLog EXCEPT ![u_id] = Append(@, e.seq)]
    /\ \E r \in SetValuesOutcomes(values) :
        IF r = "ok"
        THEN /\ out' = SetChannel(out, u_id, values)
             /\ inbox' = Remove(inbox, NextIndex(inbox))
             /\ UNCHANGED <<state, timer, failures, raised, open_sockets>>
        ELSE /\ out' = out
             /\ Raise("Exception", "set_values")

HandleMessage ==
    /\ state = "CONNECTED"
    /\ inbox # <<>>
    /\ LET e == inbox[NextIndex(inbox)]
           message == e.msg
       IN  IF IsFrame(message)
           THEN LET u_id == UniverseOf(message)
                    dmx_values == DmxValues(message)
                IN  IF NeedsCreate(universe_channels, u_id)
                    THEN \E c \in AddUniverseOutcomes :
                           IF c = "ok"
                           THEN /\ universe_channels' =
                                      Store(universe_channels, u_id, NewChannel(u_id))
                                /\ created' = [created EXCEPT ![u_id] = @ + 1]
                                /\ SetValues(e, u_id, dmx_values)
                           ELSE /\ Raise("Exception", "add_universe")
                                /\ UNCHANGED <<registryVars, outputVars>>
                    ELSE /\ SetValues(e, u_id, dmx_values)
                         /\ UNCHANGED registryVars
           ELSE \* a text message is logged; anything else is skipped
                /\ inbox' = Remove(inbox, NextIndex(inbox))
                /\ UNCHANGED <<state, timer, failures, raised, open_sockets>>
                /\ UNCHANGED <<registryVars, outputVars>>
    /\ taken' = inbox[NextIndex(inbox)]
    /\ UNCHANGED <<startupVars, serverVars>>

----------------------------------------------------------------------------
(* Specifications *)

Next ==
    \/ MainCheck
    \/ HandleRegister
    \/ SetupExit
    \/ LoadConfig
    \/ Startup
    \/ CreateNode
    \/ BeginConnect
    \/ HandshakeOk
    \/ HandshakeFail
    \/ ServerSend
    \/ HandleMessage
    \/ PeerCloseOK
    \/ ConnectionLost
    \/ Tick
    \/ WakeUp

Spec == Init /\ [][Next]_vars

\* asyncio.sleep(5) returns after 5 seconds and the loop then runs on
LiveSpec == Spec /\ WF_vars(Tick) /\ WF_vars(WakeUp)

----------------------------------------------------------------------------
(* get_subnet_broadcast on its own: every argument of ProbeIPs is applied *)

InitAddr ==
    /\ InitProgram
    /\ ip_arg \in ProbeIPs
    /\ ip_result = None

\* ip_result = get_subnet_broadcast(ip_arg)
ApplyBroadcast ==
    /\ ip_result = None
    /\ ip_result' = get_subnet_broadcast(ip_arg)
    /\ UNCHANGED <<config, state, setupVars, clientVars, ip_arg>>

NextAddr == ApplyBroadcast

AddrSpec == InitAddr /\ [][NextAddr]_vars

TypeOK ==
    /\ state \in { "MAIN", "SETUP", "LOAD", "START", "FIXED", "DISCONNECTED", "CONNECTING", "CONNECTED", "BACKOFF" }
    /\ (raised = NoException) <=> (state # "BACKOFF")
    /\ open_sockets \in 0..1
    /\ timer \in { 0, BackoffDelay }
    /\ sent \in 0..MaxMsgs
    /\ Len(inbox) <= MaxInbox
    /\ DOMAIN universe_channels \subseteq UniverseIds

----------------------------------------------------------------------------
(* Claims *)

\* the message is a frame carrying more than 512 data bytes
Oversized(m) == m.kind = "bytes" /\ Len(m.data) > 2 + 512

\* the body of async for runs in this step
Handles == taken'.seq # taken.seq

\* C11: the URI is the server_url with http replaced by ws and https by wss,
\* followed by /dmx?token= and the device secret
C11_UriSchemeRewritten ==
    uri # None =>
        LET url == config.server_url
            rest(scheme) == SubSeq(url, Len(scheme) + 1, Len(url))
            tail == << "/", "d", "m", "x", "?", "t", "o", "k", "e", "n", "=" >>
                        \o config.device_secret
        IN  /\ StartsWith(url, << "h", "t", "t", "p", ":" >>) =>
                  uri = << "w", "s", ":", "/", "/" >> \o rest(HttpScheme) \o tail
            /\ StartsWith(url, << "h", "t", "t", "p", "s", ":" >>) =>
                  uri = << "w", "s", "s", ":", "/", "/" >> \o rest(HttpsScheme) \o tail

\* C11, the part the code keeps: an http server_url gives a ws URI
C11_HttpBecomesWs ==
    (uri # None /\ StartsWith(config.server_url, HttpScheme)) =>
        uri = WsScheme \o HostPort \o DmxPath \o config.device_secret

\* C1: every frame handed to set_values has exactly 512 entries: the message
\* bytes after the 2-byte header, in order, cut after 512, then zeros
C1_FrameHas512Entries ==
    lastPush.u # -1 =>
        LET bytes == lastPush.msg.data
            L == Len(bytes)
        IN  /\ Len(lastPush.values) = 512
            /\ \A i \in 1..512 :
                 lastPush.values[i] = IF i <= L - 2 THEN bytes[i + 2] ELSE 0

\* C1, the part the code keeps: a frame of at most 512 data bytes is handed
\* over with exactly 512 entries, its data first and zeros after
C1_ShortFramePadded ==
    (lastPush.u # -1 /\ ~Oversized(lastPush.msg)) =>
        LET bytes == lastPush.msg.data
            L == Len(bytes)
        IN  /\ Len(lastPush.values) = 512
            /\ \A i \in 1..512 :
                 lastPush.values[i] = IF i <= L - 2 THEN bytes[i + 2] ELSE 0

\* C2: the loop enters CONNECTING only from DISCONNECTED (first attempt) or
\* from BACKOFF with the 5 seconds elapsed
C2_BackoffBeforeReconnect ==
    [][(state' = "CONNECTING" /\ state # "CONNECTING") =>
          (state = "DISCONNECTED" \/ (state = "BACKOFF" /\ timer = 0))]_vars

\* C3: the loop never terminates, and after every closed connection or failed
\* attempt the client is in CONNECTING again
C3_ReconnectsForever ==
    /\ [](state # "TERMINATED")
    /\ [][(state = "CONNECTED" /\ state' # "CONNECTED") =>
            state' \in { "BACKOFF", "CONNECTING" }]_vars
    /\ [][(state = "CONNECTING" /\ state' # "CONNECTING") =>
            state' \in { "BACKOFF", "CONNECTED" }]_vars
    /\ (state = "BACKOFF") ~> (state = "CONNECTING")

C3_Witness == state = "CONNECTING" /\ failures = MaxFailures

\* C4: at most one output is created per universe id over the whole run, and
\* a registry entry is never removed or replaced
C4_CreatedOnce ==
    /\ [](\A u \in UniverseIds : created[u] <= 1)
    /\ [](\A u \in DOMAIN universe_channels : created[u] = 1)
    /\ [][\A u \in DOMAIN universe_channels :
            /\ u \in DOMAIN universe_channels'
            /\ universe_channels'[u] = universe_channels[u]]_vars

C4_Witness ==
    \E u \in UniverseIds :
        /\ created[u] = 1
        /\ Len(pushLog[u]) = 2
        /\ failures >= 1
        /\ state = "CONNECTED"

\* C5: per universe, set_values is called in the order the frames arrived, and
\* every call is for the message the loop body is running for
C5_PushOrder ==
    /\ \A u \in UniverseIds :
         \A i, j \in DOMAIN pushLog[u] : i < j => pushLog[u][i] < pushLog[u][j]
    /\ \A u \in UniverseIds :
         \A i \in DOMAIN pushLog[u] : pushLog[u][i] <= taken.seq
    /\ \A i \in DOMAIN inbox : taken.seq < inbox[i].seq

C5_Witness ==
    \E u \in UniverseIds : Len(pushLog[u]) = 2 /\ lastPush.u = u

\* C6: an oversized frame that reaches set_values is pushed cut to its first
\* 512 data bytes, and the client stays in CONNECTED
C6_OversizedTruncated ==
    [][(Handles /\ Oversized(taken'.msg) /\ lastPush'.seq = taken'.seq) =>
          /\ state' = "CONNECTED"
          /\ lastPush'.values = SubSeq(taken'.msg.data, 3, 2 + 512)]_vars

\* C7: a binary message of length 0, 1 or 2 and a text message change nothing:
\* no output created, registry unchanged, no push, still CONNECTED
C7_NoOpMessages ==
    [][(Handles /\ (taken'.msg.kind = "str" \/ Len(taken'.msg.data) <= 2)) =>
          /\ universe_channels' = universe_channels
          /\ created' = created
          /\ pushLog' = pushLog
          /\ out' = out
          /\ lastPush' = lastPush
          /\ state' = "CONNECTED"]_vars

C7_Witness ==
    /\ taken.seq = 2
    /\ taken.msg.kind = "bytes"
    /\ Len(taken.msg.data) = 2
    /\ lastPush.seq = 1

\* C8: an exception raised in the loop leads to BACKOFF, never ends the loop,
\* and leaves every registry entry as it was
C8_ErrorsContained ==
    /\ [](state # "TERMINATED")
    /\ [][raised' # raised /\ raised'.exc # "none" =>
            /\ state' = "BACKOFF"
            /\ timer' = BackoffDelay
            /\ \A u \in DOMAIN universe_channels :
                 /\ u \in DOMAIN universe_channels'
                 /\ universe_channels'[u] = universe_channels[u]]_vars

C8_Witness ==
    /\ state = "BACKOFF"
    /\ raised.at = "set_values"
    /\ Cardinality(DOMAIN universe_channels) = 2

\* the effective target the spec asks for: a.b.c.255 of the local address
\* when the configured target is the global broadcast address or is absent
Effective(cfg, ip) ==
    IF ~cfg.present \/ cfg.artnet_ip = <<255, 255, 255, 255>>
    THEN << ip[1], ip[2], ip[3], 255 >>
    ELSE cfg.artnet_ip

\* C9: the fix-up runs once, before the first connection attempt; the node is
\* created with the effective target, which no reconnection changes
C9_FixUpOnce ==
    /\ [](fixups <= 1)
    /\ [](state \in { "DISCONNECTED", "CONNECTING", "CONNECTED", "BACKOFF" } =>
            /\ fixups = 1
            /\ target_ip = Effective(config, my_ip)
            /\ node_target = target_ip)
    /\ [][node_target # None =>
            node_target' = node_target /\ target_ip' = target_ip]_vars

C9_Witness ==
    /\ state = "CONNECTING"
    /\ failures >= 1
    /\ config.present /\ config.artnet_ip = GlobalBroadcast
    /\ my_ip = <<192, 168, 1, 20>>
    /\ node_target = <<192, 168, 1, 255>>

\* C10: with the global broadcast address configured (or defaulted), the
\* ArtNet node is never created with 255.255.255.255, also when address
\* discovery failed
C10_NeverGlobalBroadcast ==
    (node_target # None /\ (~config.present \/ config.artnet_ip = <<255, 255, 255, 255>>)) =>
        /\ node_target # <<255, 255, 255, 255>>
        /\ node_target[4] = 255

C10_Witness ==
    /\ node_target = <<127, 0, 0, 255>>
    /\ my_ip = Loopback
    /\ config.present

C13_SubnetBroadcastTotal ==
    ip_result # None =>
        /\ (Len(ip_arg) = 4 /\ \A i \in 1..4 : ip_arg[i] >= 0 /\ ip_arg[i] <= 255) =>
              ip_result = << ip_arg[1], ip_arg[2], ip_arg[3], 255 >>
        /\ (Len(ip_arg) # 4 \/ \E i \in 1..Len(ip_arg) : ip_arg[i] < 0 \/ ip_arg[i] > 255) =>
              ip_result = <<255, 255, 255, 255>>
        /\ ip_arg = <<192, 168, 178, 50>> => ip_result = <<192, 168, 178, 255>>
        /\ ip_arg = <<10, 0, 0, 1>> => ip_result = <<10, 0, 0, 255>>

C13_Witness ==
    \/ ip_arg = <<192, 168, 178, 50>> /\ ip_result = <<192, 168, 178, 255>>
    \/ ip_arg = <<10, 0, 0, 256>> /\ ip_result = GlobalBroadcast

\* C14: the stream client never runs without a configuration file: while the
\* file is absent the program is in main's check or in the setup flow, and
\* nothing of run_dmx_client has happened
C14_NoClientWithoutConfig ==
    /\ ~config_file.exists =>
          /\ state \in { "MAIN", "SETUP" }
          /\ node_target = None
          /\ uri = None
          /\ fixups = 0
    /\ state \in { "START", "FIXED", "DISCONNECTED", "CONNECTING", "CONNECTED", "BACKOFF" } =>
          /\ config_file.exists
          /\ config = config_file.content

C14_Witness ==
    /\ state = "SETUP"
    /\ ~config_file.exists
    /\ last_reg.status = 401

\* C17: the file is written only on status 200 with a non-empty device_secret;
\* otherwise nothing is written and the setup server keeps waiting; a file the
\* setup flow wrote holds a non-empty device_secret
C17_ConfigOnlyOnSecret ==
    /\ [][config_file' # config_file =>
            /\ state = "SETUP"
            /\ ~last_reg'.raised
            /\ last_reg'.status = 200
            /\ last_reg'.has_secret
            /\ last_reg'.device_secret # <<>>
            /\ config_file'.exists
            /\ config_file'.content.device_secret = last_reg'.device_secret]_vars
    /\ [][(state = "SETUP" /\ ~config_file'.exists) => state' = "SETUP"]_vars
    /\ [](state = "SETUP" /\ config_file.exists =>
            config_file.content.device_secret # <<>>)

C17_Witness ==
    /\ state = "SETUP"
    /\ config_file.exists
    /\ last_reg.status = 200
    /\ last_reg.device_secret # <<>>

\* C15: at most one connection to the server is open; a connection attempt
\* starts only with the previous connection closed; a message is handled only
\* while its connection is the open one
C15_OneConnection ==
    /\ [](open_sockets <= 1)
    /\ []((state = "CONNECTED") <=> (open_sockets = 1))
    /\ [](state # "CONNECTED" => inbox = <<>>)
    /\ [][(state' = "CONNECTING" /\ state # "CONNECTING") => open_sockets' = 0]_vars
    /\ [][Handles => (state = "CONNECTED" /\ open_sockets = 1)]_vars

C15_Witness ==
    /\ state = "CONNECTED"
    /\ open_sockets = 1
    /\ failures >= 1
    /\ taken.seq = 2
    /\ lastPush.seq = 1

\* the universes other than u are as they were: no push, no output created,
\* channel values and registry entry unchanged
OthersUntouched(u) ==
    \A v \in UniverseIds \ { u } :
        /\ pushLog'[v] = pushLog[v]
        /\ out'[v] = out[v]
        /\ created'[v] = created[v]
        /\ (v \in DOMAIN universe_channels') = (v \in DOMAIN universe_channels)

\* C16: handling a frame for universe u makes exactly one push, to u's output,
\* and touches no other universe
C16_ExactlyOnePush ==
    [][(Handles /\ taken'.msg.kind = "bytes" /\ Len(taken'.msg.data) > 2) =>
          LET u == 256 * taken'.msg.data[1] + taken'.msg.data[2]
          IN  /\ Len(pushLog'[u]) = Len(pushLog[u]) + 1
              /\ lastPush'.u = u /\ lastPush'.seq = taken'.seq
              /\ OthersUntouched(u)]_vars

\* C16 as amended: handling a frame for universe u touches no other universe;
\* it makes exactly one push, to u's output, unless creating u's output
\* raises, and then it makes no push and creates nothing
C16_OnlyOwnUniverse ==
    [][(Handles /\ taken'.msg.kind = "bytes" /\ Len(taken'.msg.data) > 2) =>
          LET u == 256 * taken'.msg.data[1] + taken'.msg.data[2]
          IN  /\ OthersUntouched(u)
              /\ IF raised'.at = "add_universe"
                 THEN /\ pushLog' = pushLog /\ out' = out /\ lastPush' = lastPush
                      /\ created' = created /\ universe_channels' = universe_channels
                      /\ u \notin DOMAIN universe_channels
                 ELSE /\ Len(pushLog'[u]) = Len(pushLog[u]) + 1
                      /\ lastPush'.u = u /\ lastPush'.seq = taken'.seq
                      /\ created'[u] = 1]_vars

C16_Witness ==
    /\ taken.seq = 2
    /\ lastPush.seq = 2
    /\ lastPush.u = 1
    /\ out[1] = lastPush.values
    /\ Len(out[256]) = 512
    /\ Len(pushLog[256]) = 1

====
